---- MODULE Spec2Model ----
\* Task manager of main_ref2.py: Task, ChangeLog and TaskManager with its
\* JSON storage file and its notification sink.
\*
\* Encoding of values
\*   datetime            an integer number of clock ticks (NoneVal for None)
\*   "%Y-%m-%d %H:%M:%S" the whole seconds of the datetime (sub-second ticks
\*                       are dropped by strftime)
\*   "%Y-%m-%d"          the whole days of the datetime
\*   a string that is no date in the expected format: BadDate
\*   dict                a function from its keys; a key that is absent is
\*                       absent from the DOMAIN
\*   enum member         its name
EXTENDS Integers, Sequences, FiniteSets, TLC

\* ---------------------------------------------------------------- bounds
MaxTasks == 2        \* longest task list explored
MaxLog == 2          \* longest changelog explored
MaxTime == 1         \* last clock tick explored
TicksPerSec == 2     \* clock ticks in one second
SecsPerDay == 2      \* seconds in one day
TicksPerDay == TicksPerSec * SecsPerDay

\* ------------------------------------------------------------ the values
NoneVal == -1        \* Python None / JSON null in a date position
BadDate == -2        \* a string datetime.strptime rejects

PriorityNames == {"LOW", "MEDIUM", "HIGH", "CRITICAL"}
TaskStatusNames == {"PENDING", "COMPLETED", "ARCHIVED", "DELETED"}

\* the attributes Task.__init__ sets
TaskAttrs ==
  {"title", "description", "due_date", "priority", "category", "status",
   "created_at", "updated_at", "completed_at"}

Min(a, b) == IF a <= b THEN a ELSE b

\* ------------------------------------------------------ date conversions
\* datetime.strftime("%Y-%m-%d %H:%M:%S")
strftime_ts(t) == t \div TicksPerSec

\* datetime.strftime("%Y-%m-%d")
strftime_day(t) == t \div TicksPerDay

\* datetime.strptime(s, "%Y-%m-%d %H:%M:%S"), for a string it accepts
strptime_ts(s) == s * TicksPerSec

\* datetime.strptime(s, "%Y-%m-%d"), for a string it accepts
strptime_day(s) == s * TicksPerDay

\* the strings datetime.strptime accepts
IsDateString(s) == s >= 0

\* ------------------------------------------------------------------ Task
\* Task.__init__: c and u are the two readings of the clock
Task_init(o, title, description, due_date, priority, category, c, u) ==
  [obj |-> o, title |-> title, description |-> description,
   due_date |-> due_date, priority |-> priority, category |-> category,
   status |-> "PENDING", created_at |-> c, updated_at |-> u,
   completed_at |-> NoneVal]

\* Task.to_dict
Task_to_dict(t) ==
  [title |-> t.title,
   description |-> t.description,
   due_date |-> IF t.due_date # NoneVal THEN strftime_day(t.due_date) ELSE NoneVal,
   priority |-> t.priority,
   category |-> t.category,
   status |-> t.status,
   created_at |-> strftime_ts(t.created_at),
   updated_at |-> strftime_ts(t.updated_at),
   completed_at |-> IF t.completed_at # NoneVal THEN strftime_ts(t.completed_at)
                    ELSE NoneVal]

\* dict.get(key, default)
DictGet(d, key, default) == IF key \in DOMAIN d THEN d[key] ELSE default

\* data.get(key) is truthy: the key is present and its value is not null
Truthy(d, key) == key \in DOMAIN d /\ d[key] # NoneVal

\* the exception Task.from_dict raises on data, in evaluation order
\* ("none" when it returns)
Task_from_dict_error(data) ==
  IF "title" \notin DOMAIN data THEN "KeyError"
  ELSE IF Truthy(data, "due_date") /\ ~IsDateString(data["due_date"]) THEN "ValueError"
  ELSE IF DictGet(data, "priority", "MEDIUM") \notin PriorityNames THEN "KeyError"
  ELSE IF DictGet(data, "status", "PENDING") \notin TaskStatusNames THEN "KeyError"
  ELSE IF "created_at" \notin DOMAIN data THEN "KeyError"
  ELSE IF ~IsDateString(data["created_at"]) THEN "ValueError"
  ELSE IF "updated_at" \notin DOMAIN data THEN "KeyError"
  ELSE IF ~IsDateString(data["updated_at"]) THEN "ValueError"
  ELSE IF Truthy(data, "completed_at") /\ ~IsDateString(data["completed_at"]) THEN "ValueError"
  ELSE "none"

\* Task.from_dict, when it returns; o is the identity of the new object
Task_from_dict(o, data) ==
  [obj |-> o,
   title |-> data["title"],
   description |-> DictGet(data, "description", ""),
   due_date |-> IF Truthy(data, "due_date") THEN strptime_day(data["due_date"])
                ELSE NoneVal,
   priority |-> DictGet(data, "priority", "MEDIUM"),
   category |-> DictGet(data, "category", "General"),
   status |-> DictGet(data, "status", "PENDING"),
   created_at |-> strptime_ts(data["created_at"]),
   updated_at |-> strptime_ts(data["updated_at"]),
   completed_at |-> IF Truthy(data, "completed_at")
                    THEN strptime_ts(data["completed_at"]) ELSE NoneVal]

\* the methods of class Task
TaskMethods ==
  {"update", "mark_as_completed", "archive", "to_dict", "from_dict",
   "is_overdue", "days_until_due"}

\* hasattr(t, key): an attribute of the instance (obj is the identity of
\* the object, not an attribute) or a name found on the class
hasattr(t, key) ==
  key \in (DOMAIN t \ {"obj"}) \cup TaskMethods \cup {"__class__"}

\* the exception Task.update raises ("none" when it returns): setattr
\* refuses a __class__ that is no class
Task_update_error(kwargs) ==
  IF "__class__" \in DOMAIN kwargs THEN "TypeError" ELSE "none"

\* Task.update(**kwargs) when it returns; at is the reading of the clock.
\* setattr on a method name stores an instance attribute of that name.
Task_update(t, kwargs, at) ==
  LET set == {k \in DOMAIN kwargs : hasattr(t, k)}
  IN  [k \in DOMAIN t \cup set |->
         IF k = "updated_at" THEN at
         ELSE IF k \in set THEN kwargs[k]
         ELSE t[k]]

\* Task.mark_as_completed; c and u are the two readings of the clock
Task_mark_as_completed(t, c, u) ==
  [t EXCEPT !.status = "COMPLETED", !.completed_at = c, !.updated_at = u]

\* Task.archive
Task_archive(t, at) ==
  [t EXCEPT !.status = "ARCHIVED", !.updated_at = at]

\* is_overdue that counts open tasks only
is_overdue_pending_only(t, at) ==
  t.due_date # NoneVal /\ t.due_date < at /\ t.status = "PENDING"

\* Task.is_overdue; at is the reading of the clock
is_overdue(t, at) ==
  t.due_date # NoneVal /\ t.due_date < at /\ t.status # "COMPLETED"

\* days_until_due rounding the difference towards zero
days_until_due_truncating(t, at) ==
  IF t.due_date = NoneVal THEN <<>>
  ELSE IF t.due_date >= at THEN <<(t.due_date - at) \div TicksPerDay>>
  ELSE <<-((at - t.due_date) \div TicksPerDay)>>

\* Task.days_until_due: <<>> for None, <<d>> for the integer d;
\* timedelta.days is the floor of the difference in days
days_until_due(t, at) ==
  IF t.due_date = NoneVal THEN <<>>
  ELSE <<(t.due_date - at) \div TicksPerDay>>

\* ------------------------------------------------------------ TaskFilter
\* TaskFilter.__init__; an argument left at None is <<>>, a given x is <<x>>
TaskFilter(status, priority, category, overdue_only, due_in_days) ==
  [status |-> status, priority |-> priority, category |-> category,
   overdue_only |-> overdue_only, due_in_days |-> due_in_days]

\* TaskFilter.apply testing due_in_days for truth, so that 0 counts as unset
TaskFilter_apply_falsy_days(f, ts, at) ==
  LET s1 == IF f.status # <<>>
            THEN SelectSeq(ts, LAMBDA t : t.status = f.status[1]) ELSE ts
      s2 == IF f.priority # <<>>
            THEN SelectSeq(s1, LAMBDA t : t.priority = f.priority[1]) ELSE s1
      s3 == IF f.category # <<>>
            THEN SelectSeq(s2, LAMBDA t : t.category = f.category[1]) ELSE s2
      s4 == IF f.overdue_only
            THEN SelectSeq(s3, LAMBDA t : is_overdue(t, at)) ELSE s3
  IN  IF f.due_in_days # <<>> /\ f.due_in_days # <<0>>
      THEN SelectSeq(s4, LAMBDA t :
             /\ days_until_due(t, at) # <<>>
             /\ 0 <= days_until_due(t, at)[1]
             /\ days_until_due(t, at)[1] <= f.due_in_days[1])
      ELSE s4

\* TaskFilter.apply
TaskFilter_apply(f, ts, at) ==
  LET s1 == IF f.status # <<>>
            THEN SelectSeq(ts, LAMBDA t : t.status = f.status[1]) ELSE ts
      s2 == IF f.priority # <<>>
            THEN SelectSeq(s1, LAMBDA t : t.priority = f.priority[1]) ELSE s1
      s3 == IF f.category # <<>>
            THEN SelectSeq(s2, LAMBDA t : t.category = f.category[1]) ELSE s2
      s4 == IF f.overdue_only
            THEN SelectSeq(s3, LAMBDA t : is_overdue(t, at)) ELSE s3
  IN  IF f.due_in_days # <<>>
      THEN SelectSeq(s4, LAMBDA t :
             /\ days_until_due(t, at) # <<>>
             /\ 0 <= days_until_due(t, at)[1]
             /\ days_until_due(t, at)[1] <= f.due_in_days[1])
      ELSE s4

\* TaskManager.get_upcoming_tasks on the task list ts
get_upcoming_tasks(ts, days, at) ==
  TaskFilter_apply(TaskFilter(<<"PENDING">>, <<>>, <<>>, FALSE, <<days>>), ts, at)

\* TaskManager.get_overdue_tasks on the task list ts
get_overdue_tasks(ts, at) ==
  TaskFilter_apply(TaskFilter(<<"PENDING">>, <<>>, <<>>, TRUE, <<>>), ts, at)

\* ------------------------------------------------------------- ChangeLog
\* add_change inserting the entry at the head of the list
add_change_newest_first(changes, action, task_data, timestamp) ==
  <<[action |-> action, task_data |-> task_data, timestamp |-> timestamp]>>
    \o changes

\* ChangeLog.add_change
add_change(changes, action, task_data, timestamp) ==
  Append(changes, [action |-> action, task_data |-> task_data,
                   timestamp |-> timestamp])

\* ChangeLog.to_dict
ChangeLog_to_dict(changes) ==
  [i \in 1..Len(changes) |->
     [action |-> changes[i].action,
      task_data |-> changes[i].task_data,
      timestamp |-> strftime_ts(changes[i].timestamp)]]

\* the exception one record of ChangeLog.from_dict raises ("none" if none)
Entry_from_dict_error(entry) ==
  IF "action" \notin DOMAIN entry THEN "KeyError"
  ELSE IF "task_data" \notin DOMAIN entry THEN "KeyError"
  ELSE IF "timestamp" \notin DOMAIN entry THEN "KeyError"
  ELSE IF ~IsDateString(entry["timestamp"]) THEN "ValueError"
  ELSE "none"

\* errs[i] is what record i raises: the exception of the first record that
\* raises, in list order ("none" if none does)
FirstError(errs) ==
  LET raising == {i \in 1..Len(errs) : errs[i] # "none"}
  IN  IF raising = {} THEN "none"
      ELSE errs[CHOOSE i \in raising : \A j \in raising : i <= j]

\* what each record of a "tasks" list makes Task.from_dict raise
TaskErrors(data) == [i \in 1..Len(data) |-> Task_from_dict_error(data[i])]

\* what each record of a "changelog" list makes ChangeLog.from_dict raise
EntryErrors(data) == [i \in 1..Len(data) |-> Entry_from_dict_error(data[i])]

\* ChangeLog.from_dict, when it returns
ChangeLog_from_dict(data) ==
  [i \in 1..Len(data) |->
     [action |-> data[i]["action"],
      task_data |-> data[i]["task_data"],
      timestamp |-> strptime_ts(data[i]["timestamp"])]]

\* ---------------------------------------------------------- the state
VARIABLES
  pc,          \* "new": no manager yet; "ready": constructed; "raised": the
               \* constructor let an exception out
  tasks,       \* TaskManager.tasks
  changelog,   \* TaskManager.changelog.changes
  file,        \* task_manager_data.json
  sent,        \* the messages passed to notification.send, in order
  now,         \* the clock datetime.now() reads
  ret          \* the last call and what it returned or raised

vars == <<pc, tasks, changelog, file, sent, now, ret>>

\* ------------------------------------------------------- storage file
AbsentFile == [kind |-> "absent"]
GarbageFile == [kind |-> "garbage"]       \* text json.load rejects
ListFile == [kind |-> "list"]             \* a JSON document that is no object

\* save_data leaving the changelog out of the document
save_data_tasks_only(ts, changes) ==
  [kind |-> "dict",
   data |-> [tasks |-> [i \in 1..Len(ts) |-> Task_to_dict(ts[i])],
             changelog |-> <<>>]]

\* TaskManager.save_data: the document json.dump writes
save_data(ts, changes) ==
  [kind |-> "dict",
   data |-> [tasks |-> [i \in 1..Len(ts) |-> Task_to_dict(ts[i])],
             changelog |-> ChangeLog_to_dict(changes)]]

Empty == [exc |-> "none", tasks |-> <<>>, changes |-> <<>>]

\* TaskManager.load_data on file f, from the state __init__ sets up:
\* the exception it lets out ("none" if none) and the state it leaves.
\* the body of load_data under os.path.exists
load_present(f) ==
  IF f.kind = "garbage" THEN Empty
  ELSE IF f.kind = "list" THEN [Empty EXCEPT !.exc = "AttributeError"]
  ELSE
    LET td == DictGet(f.data, "tasks", <<>>)
        cd == DictGet(f.data, "changelog", <<>>)
        te == FirstError(TaskErrors(td))
        ce == FirstError(EntryErrors(cd))
        loaded == [i \in 1..Len(td) |-> Task_from_dict(i, td[i])]
    IN  IF te = "KeyError" THEN Empty
        ELSE IF te = "ValueError" THEN [Empty EXCEPT !.exc = "ValueError"]
        ELSE IF ce = "KeyError" THEN Empty
        ELSE IF ce = "ValueError"
          THEN [exc |-> "ValueError", tasks |-> loaded, changes |-> <<>>]
        ELSE [exc |-> "none", tasks |-> loaded,
              changes |-> ChangeLog_from_dict(cd)]

\* load_data opening the file without the os.path.exists test
load_data_unguarded(f) ==
  IF f.kind = "absent" THEN [Empty EXCEPT !.exc = "FileNotFoundError"]
  ELSE load_present(f)

load_data(f) == IF f.kind = "absent" THEN Empty ELSE load_present(f)

\* ------------------------------------------------------------ the inputs
\* the arguments of Task(title, due_date, priority, category) a caller adds
NewTasks ==
  {<<"a", NoneVal, "MEDIUM", "General">>,
   <<"b", 0, "HIGH", "Work">>}


\* the keyword arguments of update_task
UpdateKwargs ==
  {[title |-> "b"],
   [status |-> "COMPLETED"],
   [created_at |-> MaxTime + 1],
   [completed_at |-> 0],
   [completed_at |-> NoneVal],
   [nosuch |-> 1]}

\* storage files found at start-up
GoodRecord ==
  [title |-> "a", description |-> "", due_date |-> NoneVal,
   priority |-> "MEDIUM", category |-> "General", status |-> "PENDING",
   created_at |-> 0, updated_at |-> 0, completed_at |-> NoneVal]
SparseRecord == [title |-> "b", created_at |-> 0, updated_at |-> 0]
GoodEntry == [action |-> "CREATE", task_data |-> GoodRecord, timestamp |-> 0]

DictFile(ts, cl) == [kind |-> "dict", data |-> [tasks |-> ts, changelog |-> cl]]

WellFormedFiles ==
  {DictFile(<<GoodRecord>>, <<GoodEntry>>),
   DictFile(<<GoodRecord, SparseRecord>>, <<GoodEntry>>),
   [kind |-> "dict", data |-> [tasks |-> <<GoodRecord>>]]}

MalformedFiles ==
  {GarbageFile,
   ListFile,
   \* missing required key
   DictFile(<<GoodRecord, [description |-> ""]>>, <<GoodEntry>>),
   DictFile(<<GoodRecord>>, <<GoodEntry, [action |-> "CREATE", task_data |-> GoodRecord]>>),
   \* unexpected enum name
   DictFile(<<GoodRecord, [GoodRecord EXCEPT !.status = "DONE"]>>, <<GoodEntry>>),
   DictFile(<<[GoodRecord EXCEPT !.priority = "URGENT"]>>, <<>>),
   \* bad date string
   DictFile(<<GoodRecord, [GoodRecord EXCEPT !.created_at = BadDate]>>, <<GoodEntry>>),
   DictFile(<<[GoodRecord EXCEPT !.due_date = BadDate]>>, <<GoodEntry>>),
   DictFile(<<GoodRecord>>, <<GoodEntry, [GoodEntry EXCEPT !.timestamp = BadDate]>>)}

InitFiles == {AbsentFile} \cup WellFormedFiles \cup MalformedFiles

\* n successive readings of the clock, which may tick once between them
Readings(n) ==
  {[i \in 1..n |-> IF i < k THEN now ELSE Min(now + 1, MaxTime)] : k \in 1..(n + 1)}

InRange(task_id) == 0 <= task_id /\ task_id < Len(tasks)

\* the task ids a caller passes: every index, and the integer next to the
\* range on each side
TaskIds == -1..Len(tasks)

\* tasks with the task of index task_id (zero-based) replaced by t
Replace(task_id, t) == [tasks EXCEPT ![task_id + 1] = t]

Call(op, task_id, val) == [op |-> op, id |-> task_id, val |-> val]

\* no call is under way
NoCall == Call("none", 0, "None")

\* the caller is between two calls on a constructed manager
AtMenu == pc = "ready" /\ ret = NoCall

\* ----------------------------------------------------------------- Init
Init ==
  /\ pc = "new"
  /\ tasks = <<>>
  /\ changelog = <<>>
  /\ file \in InitFiles
  /\ sent = <<>>
  /\ now = 0
  /\ ret = NoCall

\* -------------------------------------------------------------- actions
\* main: TaskManager() = TaskManager.__init__ with load_data
TaskManager_init ==
  /\ pc = "new"
  /\ LET r == load_data(file)
     IN  /\ tasks' = r.tasks
         /\ changelog' = r.changes
         /\ pc' = IF r.exc = "none" THEN "ready" ELSE "raised"
         /\ ret' = Call("__init__", 0, r.exc)
  /\ UNCHANGED <<file, sent, now>>

\* time passes between two calls
Tick ==
  /\ now < MaxTime
  /\ now' = now + 1
  /\ UNCHANGED <<pc, tasks, changelog, file, sent, ret>>

\* add_task with tasks.insert(0, task) for tasks.append(task)
add_task_at_head(title, due_date, priority, category) ==
  /\ AtMenu
  /\ Len(tasks) < MaxTasks
  /\ Len(changelog) < MaxLog
  /\ \E r \in Readings(3) :
       LET task == Task_init(Len(tasks) + 1, title, "", due_date, priority,
                             category, r[1], r[2])
           ts == <<task>> \o tasks
           cl == add_change(changelog, "CREATE", Task_to_dict(task), r[3])
       IN  /\ tasks' = ts
           /\ changelog' = cl
           /\ file' = save_data(ts, cl)
           /\ sent' = Append(sent, <<"Task added", task.title>>)
           /\ now' = r[3]
           /\ ret' = Call("add_task", Len(tasks), "Task")
  /\ UNCHANGED pc

\* TaskManager.add_task(Task(title, "", due_date, priority, category))
add_task(title, due_date, priority, category) ==
  /\ AtMenu
  /\ Len(tasks) < MaxTasks
  /\ Len(changelog) < MaxLog
  /\ \E r \in Readings(3) :
       LET task == Task_init(Len(tasks) + 1, title, "", due_date, priority,
                             category, r[1], r[2])
           ts == Append(tasks, task)
           cl == add_change(changelog, "CREATE", Task_to_dict(task), r[3])
       IN  /\ tasks' = ts
           /\ changelog' = cl
           /\ file' = save_data(ts, cl)
           /\ sent' = Append(sent, <<"Task added", task.title>>)
           /\ now' = r[3]
           /\ ret' = Call("add_task", Len(tasks), "Task")
  /\ UNCHANGED pc

\* the out-of-range branch with save_data outside the bounds test
NotFound_saving(op, task_id, val) ==
  /\ ret' = Call(op, task_id, val)
  /\ file' = save_data(tasks, changelog)
  /\ UNCHANGED <<pc, tasks, changelog, sent, now>>

\* the branch of an operation whose task_id fails the bounds test
NotFound(op, task_id, val) ==
  /\ ret' = Call(op, task_id, val)
  /\ UNCHANGED <<pc, tasks, changelog, file, sent, now>>

\* update_task taking old_data after task.update
update_task_old_after(task_id, kwargs) ==
  /\ AtMenu
  /\ IF InRange(task_id)
     THEN /\ Len(changelog) < MaxLog
          /\ \E r \in Readings(2) :
               LET old == tasks[task_id + 1]
                   task == Task_update(old, kwargs, r[1])
                   old_data == Task_to_dict(task)
                   ts == Replace(task_id, task)
                   cl == add_change(changelog, "UPDATE",
                                    [old |-> old_data, new |-> Task_to_dict(task)],
                                    r[2])
               IN  /\ tasks' = ts
                   /\ changelog' = cl
                   /\ file' = save_data(ts, cl)
                   /\ sent' = Append(sent, <<"Task updated", task.title>>)
                   /\ now' = r[2]
                   /\ ret' = Call("update_task", task_id, "Task")
          /\ UNCHANGED pc
     ELSE NotFound("update_task", task_id, "None")

\* TaskManager.update_task
update_task(task_id, kwargs) ==
  /\ AtMenu
  /\ IF InRange(task_id)
     THEN /\ Len(changelog) < MaxLog
          /\ \E r \in Readings(2) :
               LET old == tasks[task_id + 1]
                   old_data == Task_to_dict(old)
                   task == Task_update(old, kwargs, r[1])
                   ts == Replace(task_id, task)
                   cl == add_change(changelog, "UPDATE",
                                    [old |-> old_data, new |-> Task_to_dict(task)],
                                    r[2])
               IN  /\ tasks' = ts
                   /\ changelog' = cl
                   /\ file' = save_data(ts, cl)
                   /\ sent' = Append(sent, <<"Task updated", task.title>>)
                   /\ now' = r[2]
                   /\ ret' = Call("update_task", task_id, "Task")
          /\ UNCHANGED pc
     ELSE NotFound("update_task", task_id, "None")

\* delete_task with del self.tasks[task_id] for the status assignment
delete_task_hard(task_id) ==
  /\ AtMenu
  /\ IF InRange(task_id)
     THEN /\ Len(changelog) < MaxLog
          /\ \E r \in Readings(1) :
               LET task == [tasks[task_id + 1] EXCEPT !.status = "DELETED"]
                   ts == SubSeq(tasks, 1, task_id) \o
                         SubSeq(tasks, task_id + 2, Len(tasks))
                   cl == add_change(changelog, "DELETE", Task_to_dict(task), r[1])
               IN  /\ tasks' = ts
                   /\ changelog' = cl
                   /\ file' = save_data(ts, cl)
                   /\ sent' = Append(sent, <<"Task deleted", task.title>>)
                   /\ now' = r[1]
                   /\ ret' = Call("delete_task", task_id, "True")
          /\ UNCHANGED pc
     ELSE NotFound("delete_task", task_id, "False")

\* TaskManager.delete_task
delete_task(task_id) ==
  /\ AtMenu
  /\ IF InRange(task_id)
     THEN /\ Len(changelog) < MaxLog
          /\ \E r \in Readings(1) :
               LET task == [tasks[task_id + 1] EXCEPT !.status = "DELETED"]
                   ts == Replace(task_id, task)
                   cl == add_change(changelog, "DELETE", Task_to_dict(task), r[1])
               IN  /\ tasks' = ts
                   /\ changelog' = cl
                   /\ file' = save_data(ts, cl)
                   /\ sent' = Append(sent, <<"Task deleted", task.title>>)
                   /\ now' = r[1]
                   /\ ret' = Call("delete_task", task_id, "True")
          /\ UNCHANGED pc
     ELSE NotFound("delete_task", task_id, "False")

\* TaskManager.complete_task
complete_task(task_id) ==
  /\ AtMenu
  /\ IF InRange(task_id)
     THEN /\ Len(changelog) < MaxLog
          /\ \E r \in Readings(3) :
               LET task == Task_mark_as_completed(tasks[task_id + 1], r[1], r[2])
                   ts == Replace(task_id, task)
                   cl == add_change(changelog, "COMPLETE", Task_to_dict(task), r[3])
               IN  /\ tasks' = ts
                   /\ changelog' = cl
                   /\ file' = save_data(ts, cl)
                   /\ sent' = Append(sent, <<"Task completed", task.title>>)
                   /\ now' = r[3]
                   /\ ret' = Call("complete_task", task_id, "Task")
          /\ UNCHANGED pc
     ELSE NotFound("complete_task", task_id, "None")

\* archive_task with the notification.send of the other operations
archive_task_notifying(task_id) ==
  /\ AtMenu
  /\ IF InRange(task_id)
     THEN /\ Len(changelog) < MaxLog
          /\ \E r \in Readings(2) :
               LET task == Task_archive(tasks[task_id + 1], r[1])
                   ts == Replace(task_id, task)
                   cl == add_change(changelog, "ARCHIVE", Task_to_dict(task), r[2])
               IN  /\ tasks' = ts
                   /\ changelog' = cl
                   /\ file' = save_data(ts, cl)
                   /\ sent' = Append(sent, <<"Task archived", task.title>>)
                   /\ now' = r[2]
                   /\ ret' = Call("archive_task", task_id, "Task")
          /\ UNCHANGED pc
     ELSE NotFound("archive_task", task_id, "None")

\* TaskManager.archive_task
archive_task(task_id) ==
  /\ AtMenu
  /\ IF InRange(task_id)
     THEN /\ Len(changelog) < MaxLog
          /\ \E r \in Readings(2) :
               LET task == Task_archive(tasks[task_id + 1], r[1])
                   ts == Replace(task_id, task)
                   cl == add_change(changelog, "ARCHIVE", Task_to_dict(task), r[2])
               IN  /\ tasks' = ts
                   /\ changelog' = cl
                   /\ file' = save_data(ts, cl)
                   /\ now' = r[2]
                   /\ ret' = Call("archive_task", task_id, "Task")
          /\ UNCHANGED <<pc, sent>>
     ELSE NotFound("archive_task", task_id, "None")

\* TaskManager.get_task
get_task(task_id) ==
  /\ AtMenu
  /\ ret' = Call("get_task", task_id, IF InRange(task_id) THEN "Task" ELSE "None")
  /\ UNCHANGED <<pc, tasks, changelog, file, sent, now>>

\* TaskManagerUI.run, choice 12: the process ends; the next run of main
\* starts without a manager
Exit ==
  /\ AtMenu
  /\ pc' = "new"
  /\ tasks' = <<>>
  /\ changelog' = <<>>
  /\ sent' = <<>>
  /\ UNCHANGED <<file, now, ret>>

\* the caller has taken the result of the last call and goes on
Continue ==
  /\ pc = "ready"
  /\ ret # NoCall
  /\ ret' = NoCall
  /\ UNCHANGED <<pc, tasks, changelog, file, sent, now>>

Next ==
  \/ TaskManager_init
  \/ Tick
  \/ \E n \in NewTasks : add_task(n[1], n[2], n[3], n[4])
  \/ \E task_id \in TaskIds, kwargs \in UpdateKwargs : update_task(task_id, kwargs)
  \/ \E task_id \in TaskIds : delete_task(task_id)
  \/ \E task_id \in TaskIds : complete_task(task_id)
  \/ \E task_id \in TaskIds : archive_task(task_id)
  \/ \E task_id \in TaskIds : get_task(task_id)
  \/ Continue
  \/ Exit

Spec == Init /\ [][Next]_vars

\* ------------------------------------------------ the read-only queries
\* Task lists, clock readings and filters the queries are asked on.
QueryTask(title, due_date, priority, category, status) ==
  [Task_init(0, title, "", due_date, priority, category, 0, 0)
     EXCEPT !.status = status]

QueryTasks ==
  {QueryTask("a", NoneVal, "MEDIUM", "General", "PENDING"),
   QueryTask("b", TicksPerDay, "HIGH", "Work", "PENDING"),
   QueryTask("c", 1, "MEDIUM", "Work", "PENDING"),
   QueryTask("d", TicksPerDay, "HIGH", "Work", "COMPLETED"),
   QueryTask("e", TicksPerDay, "HIGH", "General", "DELETED"),
   QueryTask("f", 3 * TicksPerDay, "MEDIUM", "General", "ARCHIVED")}

\* the lists of at most MaxTasks of these tasks, each task its own object
QueryTaskLists ==
  UNION {{[i \in 1..n |-> [s[i] EXCEPT !.obj = i]] : s \in [1..n -> QueryTasks]}
         : n \in 0..MaxTasks}

QueryTimes == 0..(2 * TicksPerDay)

Filters ==
  {TaskFilter(s, p, c, o, d) :
     s \in {<<>>, <<"PENDING">>}, p \in {<<>>, <<"HIGH">>},
     c \in {<<>>, <<"Work">>}, o \in BOOLEAN, d \in {<<>>, <<0>>, <<1>>}}

\* the days argument of get_upcoming_tasks
UpcomingDays == {0, 1, 7}

Query(op, arg, val) == [op |-> op, arg |-> arg, val |-> val]

InitQuery ==
  /\ pc = "query"
  /\ tasks \in QueryTaskLists
  /\ changelog = <<>>
  /\ file = AbsentFile
  /\ sent = <<>>
  /\ now \in QueryTimes
  /\ ret = NoCall

\* a call that returns val and has no other effect
Returns(op, arg, val) ==
  /\ ret' = Query(op, arg, val)
  /\ UNCHANGED <<pc, tasks, changelog, file, sent, now>>

\* tasks[i].is_overdue()
Query_is_overdue(i) == Returns("is_overdue", i, is_overdue(tasks[i], now))

\* tasks[i].days_until_due()
Query_days_until_due(i) ==
  Returns("days_until_due", i, days_until_due(tasks[i], now))

\* TaskManager.filter_tasks(task_filter)
Query_filter_tasks(task_filter) ==
  Returns("filter_tasks", task_filter, TaskFilter_apply(task_filter, tasks, now))

\* TaskManager.get_upcoming_tasks(days)
Query_get_upcoming_tasks(days) ==
  Returns("get_upcoming_tasks", days, get_upcoming_tasks(tasks, days, now))

\* TaskManager.get_overdue_tasks()
Query_get_overdue_tasks ==
  Returns("get_overdue_tasks", 0, get_overdue_tasks(tasks, now))

NextQuery ==
  \/ \E i \in 1..Len(tasks) : Query_is_overdue(i)
  \/ \E i \in 1..Len(tasks) : Query_days_until_due(i)
  \/ \E task_filter \in Filters : Query_filter_tasks(task_filter)
  \/ \E days \in UpcomingDays : Query_get_upcoming_tasks(days)
  \/ Query_get_overdue_tasks

SpecQuery == InitQuery /\ [][NextQuery]_vars

\* ------------------------------------- the mutating operations, by step
\* Each mutating operation taken one statement at a time: the change to
\* the task list, changelog.add_change, save_data, notification.send.
\* pc is the statement reached; ret is the call under way, with the
\* snapshot its add_change is about to log.
Running(op, task_id, task_data) ==
  [op |-> op, id |-> task_id, val |-> "running", data |-> task_data]

\* the action name each operation logs
LoggedAs ==
  [add_task |-> "CREATE", update_task |-> "UPDATE", delete_task |-> "DELETE",
   complete_task |-> "COMPLETE", archive_task |-> "ARCHIVE"]

\* the text each operation sends; archive_task sends none
NotificationOf ==
  [add_task |-> "Task added", update_task |-> "Task updated",
   delete_task |-> "Task deleted", complete_task |-> "Task completed"]

\* what each operation returns when it has run to its end
ReturnOf ==
  [add_task |-> "Task", update_task |-> "Task", delete_task |-> "True",
   complete_task |-> "Task", archive_task |-> "Task"]

\* a manager constructed where no storage file exists
InitSteps ==
  /\ pc = "ready"
  /\ tasks = <<>>
  /\ changelog = <<>>
  /\ file = AbsentFile
  /\ sent = <<>>
  /\ now = 0
  /\ ret = NoCall

\* the operation op has changed the task list to ts; task_data is the
\* argument evaluated for add_change, at is the last clock reading
Mutated(op, task_id, ts, task_data, at) ==
  /\ Len(changelog) < MaxLog
  /\ tasks' = ts
  /\ now' = at
  /\ pc' = "mutated"
  /\ ret' = Running(op, task_id, task_data)
  /\ UNCHANGED <<changelog, file, sent>>

\* add_task: self.tasks.append(task), task.to_dict()
add_task_mutate(title, due_date, priority, category) ==
  /\ AtMenu
  /\ Len(tasks) < MaxTasks
  /\ \E r \in Readings(2) :
       LET task == Task_init(Len(tasks) + 1, title, "", due_date, priority,
                             category, r[1], r[2])
       IN  Mutated("add_task", Len(tasks), Append(tasks, task),
                   Task_to_dict(task), r[2])

\* update_task: old_data = task.to_dict(), task.update(**kwargs)
update_task_mutate(task_id, kwargs) ==
  /\ AtMenu
  /\ IF InRange(task_id)
     THEN \E r \in Readings(1) :
            LET old == tasks[task_id + 1]
                task == Task_update(old, kwargs, r[1])
            IN  Mutated("update_task", task_id, Replace(task_id, task),
                        [old |-> Task_to_dict(old), new |-> Task_to_dict(task)],
                        r[1])
     ELSE NotFound("update_task", task_id, "None")

\* delete_task: task.status = TaskStatus.DELETED
delete_task_mutate(task_id) ==
  /\ AtMenu
  /\ IF InRange(task_id)
     THEN LET task == [tasks[task_id + 1] EXCEPT !.status = "DELETED"]
          IN  Mutated("delete_task", task_id, Replace(task_id, task),
                      Task_to_dict(task), now)
     ELSE NotFound("delete_task", task_id, "False")

\* complete_task: task.mark_as_completed()
complete_task_mutate(task_id) ==
  /\ AtMenu
  /\ IF InRange(task_id)
     THEN \E r \in Readings(2) :
            LET task == Task_mark_as_completed(tasks[task_id + 1], r[1], r[2])
            IN  Mutated("complete_task", task_id, Replace(task_id, task),
                        Task_to_dict(task), r[2])
     ELSE NotFound("complete_task", task_id, "None")

\* archive_task: task.archive()
archive_task_mutate(task_id) ==
  /\ AtMenu
  /\ IF InRange(task_id)
     THEN \E r \in Readings(1) :
            LET task == Task_archive(tasks[task_id + 1], r[1])
            IN  Mutated("archive_task", task_id, Replace(task_id, task),
                        Task_to_dict(task), r[1])
     ELSE NotFound("archive_task", task_id, "None")

\* self.changelog.add_change(action, task_data)
log_change ==
  /\ pc = "mutated"
  /\ \E r \in Readings(1) :
       /\ changelog' = add_change(changelog, LoggedAs[ret.op], ret.data, r[1])
       /\ now' = r[1]
  /\ pc' = "logged"
  /\ UNCHANGED <<tasks, file, sent, ret>>

\* self.save_data() writing the whole document
persist ==
  /\ pc = "logged"
  /\ file' = save_data(tasks, changelog)
  /\ pc' = "saved"
  /\ UNCHANGED <<tasks, changelog, sent, now, ret>>

\* save_data raising OSError and notifying all the same
persist_fails_notifying ==
  /\ pc = "logged"
  /\ file' \in {file, GarbageFile}
  /\ sent' = IF ret.op \in DOMAIN NotificationOf
             THEN Append(sent, <<NotificationOf[ret.op], tasks[ret.id + 1].title>>)
             ELSE sent
  /\ pc' = "ready"
  /\ ret' = Call(ret.op, ret.id, "OSError")
  /\ UNCHANGED <<tasks, changelog, now>>

\* self.save_data() raising OSError: open() fails and the file is as it
\* was, or json.dump fails and the file holds part of a document; the
\* exception leaves the operation, the caller reports it and goes on
persist_fails ==
  /\ pc = "logged"
  /\ file' \in {file, GarbageFile}
  /\ pc' = "ready"
  /\ ret' = Call(ret.op, ret.id, "OSError")
  /\ UNCHANGED <<tasks, changelog, sent, now>>

\* self.notification.send(...) and the return
notify ==
  /\ pc = "saved"
  /\ ret.op \in DOMAIN NotificationOf
  /\ sent' = Append(sent, <<NotificationOf[ret.op], tasks[ret.id + 1].title>>)
  /\ pc' = "ready"
  /\ ret' = Call(ret.op, ret.id, ReturnOf[ret.op])
  /\ UNCHANGED <<tasks, changelog, file, now>>

\* archive_task returning after save_data
return_archived ==
  /\ pc = "saved"
  /\ ret.op = "archive_task"
  /\ pc' = "ready"
  /\ ret' = Call(ret.op, ret.id, ReturnOf[ret.op])
  /\ UNCHANGED <<tasks, changelog, file, sent, now>>

NextSteps ==
  \/ \E n \in NewTasks : add_task_mutate(n[1], n[2], n[3], n[4])
  \/ \E task_id \in TaskIds, kwargs \in UpdateKwargs :
       update_task_mutate(task_id, kwargs)
  \/ \E task_id \in TaskIds : delete_task_mutate(task_id)
  \/ \E task_id \in TaskIds : complete_task_mutate(task_id)
  \/ \E task_id \in TaskIds : archive_task_mutate(task_id)
  \/ log_change
  \/ persist
  \/ persist_fails
  \/ notify
  \/ return_archived
  \/ Continue

SpecSteps == InitSteps /\ [][NextSteps]_vars

\* ------------------------------------- the read-only calls of a manager
\* TaskManager.get_categories: list(set(...)), the categories in no order
get_categories(ts) == {ts[i].category : i \in 1..Len(ts)}

\* ChangeLog.get_changes_since
get_changes_since(changes, since) ==
  SelectSeq(changes, LAMBDA change : change.timestamp >= since)

\* the filters, days and timestamps the caller of a manager passes
ReadFilters == {f \in Filters : f.priority = <<>> /\ f.due_in_days = <<>>}

ReadDays == {0, 7}

SinceTimes == 0..(MaxTime + 1)

\* TaskManager.get_categories()
Query_get_categories == Returns("get_categories", 0, get_categories(tasks))

\* get_changes_since handing out the entries and dropping them from the log
Query_get_changes_since_consuming(since) ==
  /\ ret' = Query("get_changes_since", since, get_changes_since(changelog, since))
  /\ changelog' = SelectSeq(changelog, LAMBDA change : change.timestamp < since)
  /\ UNCHANGED <<pc, tasks, file, sent, now>>

\* manager.changelog.get_changes_since(since)
Query_get_changes_since(since) ==
  Returns("get_changes_since", since, get_changes_since(changelog, since))

\* the caller may ask for the changes again before any other call
AtChanges == pc = "ready" /\ ret.op \in {"none", "get_changes_since"}

\* a manager that is constructed, changed by some operations, and queried
NextRead ==
  \/ TaskManager_init
  \/ Tick
  \/ \E n \in NewTasks : add_task(n[1], n[2], n[3], n[4])
  \/ \E task_id \in TaskIds : delete_task(task_id)
  \/ \E task_id \in TaskIds : complete_task(task_id)
  \/ \E task_id \in TaskIds : get_task(task_id)
  \/ \E task_filter \in ReadFilters : AtMenu /\ Query_filter_tasks(task_filter)
  \/ AtMenu /\ Query_get_categories
  \/ \E days \in ReadDays : AtMenu /\ Query_get_upcoming_tasks(days)
  \/ AtMenu /\ Query_get_overdue_tasks
  \/ \E since \in SinceTimes : AtChanges /\ Query_get_changes_since(since)
  \/ Continue

SpecRead == Init /\ [][NextRead]_vars

\* ------------------------------------------------------- Task.update
\* One task and the calls of its update method.
UpdateTasks ==
  {Task_init(1, "a", "", NoneVal, "MEDIUM", "General", 0, 0),
   [Task_init(1, "c", "", 0, "HIGH", "Work", 0, 0)
      EXCEPT !.status = "COMPLETED", !.completed_at = 0]}

\* a value for each keyword a caller supplies
KeywordValues ==
  [title |-> "b", status |-> "ARCHIVED", due_date |-> 1, updated_at |-> 0,
   nosuch |-> 1, to_dict |-> 1]

\* the keyword arguments of Task.update: any of the keywords together,
\* or __class__ alone
UpdateCalls ==
  {[k \in S |-> KeywordValues[k]] : S \in SUBSET DOMAIN KeywordValues}
    \cup {[k \in {"__class__"} |-> 1]}

MethodCall(op, arg, val, self) ==
  [op |-> op, arg |-> arg, val |-> val, self |-> self]

InitUpdate ==
  /\ pc = "task"
  /\ tasks \in {<<t>> : t \in UpdateTasks}
  /\ changelog = <<>>
  /\ file = AbsentFile
  /\ sent = <<>>
  /\ now = 0
  /\ ret = NoCall

\* tasks[0].update(**kwargs); ret keeps the task as it was before
Task_update_call(kwargs) ==
  /\ \E r \in Readings(1) :
       IF Task_update_error(kwargs) = "none"
       THEN /\ tasks' = <<Task_update(tasks[1], kwargs, r[1])>>
            /\ now' = r[1]
            /\ ret' = MethodCall("update", kwargs, "None", tasks[1])
       ELSE /\ ret' = MethodCall("update", kwargs, Task_update_error(kwargs),
                                 tasks[1])
            /\ UNCHANGED <<tasks, now>>
  /\ UNCHANGED <<pc, changelog, file, sent>>

\* tasks[0].to_dict(): the call of an instance attribute that is no
\* method raises TypeError
Task_to_dict_call ==
  /\ ret' = MethodCall("to_dict", <<>>,
                       IF "to_dict" \in DOMAIN tasks[1] THEN "TypeError"
                       ELSE "dict", tasks[1])
  /\ UNCHANGED <<pc, tasks, changelog, file, sent, now>>

NextUpdate ==
  \/ \E kwargs \in UpdateCalls : Task_update_call(kwargs)
  \/ Task_to_dict_call

SpecUpdate == InitUpdate /\ [][NextUpdate]_vars

\* ------------------------------------------------------------ properties
MutatingOps ==
  {"add_task", "update_task", "delete_task", "complete_task", "archive_task"}
NotifyingOps == {"add_task", "update_task", "delete_task", "complete_task"}
LookupOps ==
  {"get_task", "update_task", "delete_task", "complete_task", "archive_task"}

\* the call of ret returned a task or True
Success == ret.val \in {"Task", "True"}

\* this step is a call of op
Called(op) == AtMenu /\ ret'.op = op

\* this step is a call of op that returned a task or True
Succeeded(op) == Called(op) /\ ret'.val \in {"Task", "True"}

IsPrefix(s, t) == Len(s) <= Len(t) /\ SubSeq(t, 1, Len(s)) = s

\* C1: once a mutating operation has returned with success, the storage file
\* is a JSON object holding the record of every task, in order, and the record
\* of every changelog entry, in order, and nothing else.
C1_PersistsBeforeReturning ==
  (pc = "ready" /\ ret.op \in MutatingOps /\ Success) =>
    /\ file.kind = "dict"
    /\ DOMAIN file.data = {"tasks", "changelog"}
    /\ Len(file.data.tasks) = Len(tasks)
    /\ \A i \in 1..Len(tasks) : file.data.tasks[i] = Task_to_dict(tasks[i])
    /\ Len(file.data.changelog) = Len(changelog)
    /\ \A i \in 1..Len(changelog) :
         /\ file.data.changelog[i].action = changelog[i].action
         /\ file.data.changelog[i].task_data = changelog[i].task_data
         /\ file.data.changelog[i].timestamp = strftime_ts(changelog[i].timestamp)

\* an update of the second of two tasks has returned and the file holds both
\* tasks and both changelog entries
C1_Witness ==
  /\ pc = "ready" /\ ret = Call("update_task", 1, "Task")
  /\ Len(tasks) = 2 /\ Len(changelog) = 2
  /\ file.kind = "dict" /\ Len(file.data.changelog) = 2

\* C2: while a manager lives, every step leaves the changelog it found as a
\* prefix of the changelog it leaves: entries are only added at the end and
\* no entry's action, task_data or timestamp changes.
C2_ChangelogAppendOnly ==
  [][(pc = "ready" /\ pc' = "ready") => IsPrefix(changelog, changelog')]_vars

\* a task was created with title "a" and then retitled: the CREATE entry
\* still carries the title it was logged with
C2_Witness ==
  /\ pc = "ready" /\ Len(changelog) = 2 /\ Len(tasks) >= 1
  /\ changelog[1].action = "CREATE" /\ changelog[2].action = "UPDATE"
  /\ changelog[1].task_data.title = "a"
  /\ changelog[2].task_data.old = changelog[1].task_data
  /\ tasks[1].title = "b"

\* C3: a call of get_task, update_task, delete_task, complete_task or
\* archive_task with an id outside [0, length) returns None (False for
\* delete_task) and leaves tasks, changelog, storage file and the sent
\* notifications as they were.
C3_OutOfRangeIsNotFound ==
  [][(AtMenu /\ ret'.op \in LookupOps /\ ~InRange(ret'.id)) =>
       /\ ret'.val = IF ret'.op = "delete_task" THEN "False" ELSE "None"
       /\ pc' = "ready"
       /\ UNCHANGED <<tasks, changelog, file, sent>>]_vars

\* delete_task was called with id = length on a manager that holds a task
\* and whose storage file does not hold its state
C3_Witness ==
  /\ pc = "ready" /\ Len(tasks) >= 1
  /\ ret = Call("delete_task", Len(tasks), "False")
  /\ file # save_data(tasks, changelog)

\* C4: add_task lengthens the task list by one, the new task last and the
\* others in place, and appends one changelog entry, a CREATE entry whose
\* task_data is the new task's record.
C4_AddTaskAppends ==
  [][Called("add_task") =>
       /\ Len(tasks') = Len(tasks) + 1
       /\ IsPrefix(tasks, tasks')
       /\ ret'.id = Len(tasks)
       /\ Len(changelog') = Len(changelog) + 1
       /\ IsPrefix(changelog, changelog')
       /\ changelog'[Len(changelog')].action = "CREATE"
       /\ changelog'[Len(changelog')].task_data = Task_to_dict(tasks'[Len(tasks')])]_vars

\* a second task, different from the first, has been added
C4_Witness ==
  /\ pc = "ready" /\ ret = Call("add_task", 1, "Task")
  /\ Len(tasks) = 2 /\ tasks[1].title # tasks[2].title
  /\ changelog[Len(changelog)].action = "CREATE"

\* C5: delete_task with a valid id changes that task's status to DELETED and
\* nothing else in the task list; while a manager lives no step shortens the
\* task list or moves a task to another index, and every storage file
\* written holds one record per task.
C5_SoftDelete ==
  [][(pc = "ready" /\ pc' = "ready") =>
       /\ Len(tasks') >= Len(tasks)
       /\ \A i \in 1..Len(tasks) : tasks'[i].obj = tasks[i].obj
       /\ (Called("delete_task") /\ InRange(ret'.id)) =>
            tasks' = [tasks EXCEPT ![ret'.id + 1].status = "DELETED"]
       /\ file' # file =>
            (file'.kind = "dict" /\ Len(file'.data.tasks) = Len(tasks'))]_vars

\* the first of two tasks has been deleted and both are still in the list
\* and in the file
C5_Witness ==
  /\ pc = "ready" /\ ret = Call("delete_task", 0, "True")
  /\ Len(tasks) = 2 /\ tasks[1].status = "DELETED" /\ tasks[2].status # "DELETED"
  /\ file.kind = "dict" /\ Len(file.data.tasks) = 2

\* C6: every task of a constructed manager has updated_at >= created_at.
C6_UpdatedNotBeforeCreated ==
  pc = "ready" =>
    \A i \in 1..Len(tasks) : tasks[i].updated_at >= tasks[i].created_at

\* C7: a task whose status is COMPLETED has had its status set to Completed,
\* so its completed_at is not None (the half of the equivalence a state shows
\* without its history).
C7_CompletedHasCompletedAt ==
  pc = "ready" =>
    \A i \in 1..Len(tasks) :
      tasks[i].status = "COMPLETED" => tasks[i].completed_at # NoneVal

\* C8: while a manager lives, a step sends one notification if it is a
\* successful add_task, update_task, delete_task or complete_task and none
\* otherwise; a successful archive_task appends one ARCHIVE entry to the
\* changelog and sends nothing.
C8_ArchiveDoesNotNotify ==
  [][(pc = "ready" /\ pc' = "ready") =>
       /\ IsPrefix(sent, sent')
       /\ Len(sent') = Len(sent) +
            (IF \E op \in NotifyingOps : Succeeded(op) THEN 1 ELSE 0)
       /\ Succeeded("archive_task") =>
            /\ sent' = sent
            /\ Len(changelog') = Len(changelog) + 1
            /\ changelog'[Len(changelog')].action = "ARCHIVE"]_vars

\* a task was added and then archived: two changelog entries, one message
C8_Witness ==
  /\ pc = "ready" /\ ret = Call("archive_task", 0, "Task")
  /\ Len(changelog) = 2 /\ changelog[2].action = "ARCHIVE"
  /\ Len(sent) = 1

\* C9: constructing a manager while the storage file is absent returns
\* normally with no task and no changelog entry, and the file is still
\* absent.
C9_AbsentFileLoadsEmpty ==
  [][(pc = "new" /\ pc' # "new" /\ file.kind = "absent") =>
       /\ pc' = "ready"
       /\ ret' = Call("__init__", 0, "none")
       /\ tasks' = <<>>
       /\ changelog' = <<>>
       /\ file'.kind = "absent"]_vars

\* a manager has been constructed without a storage file
C9_Witness ==
  /\ pc = "ready" /\ ret.op = "__init__" /\ file.kind = "absent"
  /\ tasks = <<>> /\ changelog = <<>>

\* some record of the document makes from_dict raise, or the text is no
\* JSON object
Malformed(f) ==
  \/ f.kind \in {"garbage", "list"}
  \/ /\ f.kind = "dict"
     /\ \/ \E i \in 1..Len(DictGet(f.data, "tasks", <<>>)) :
             Task_from_dict_error(f.data.tasks[i]) # "none"
        \/ \E i \in 1..Len(DictGet(f.data, "changelog", <<>>)) :
             Entry_from_dict_error(f.data.changelog[i]) # "none"

\* C10: after load, the state is empty if the storage file is malformed, and
\* otherwise holds every task and every changelog entry of the file.
C10_LoadAllOrNothing ==
  ret.op = "__init__" =>
    IF Malformed(file) \/ file.kind = "absent"
    THEN tasks = <<>> /\ changelog = <<>>
    ELSE /\ Len(tasks) = Len(DictGet(file.data, "tasks", <<>>))
         /\ Len(changelog) = Len(DictGet(file.data, "changelog", <<>>))

\* C11: no call lets an exception out: the constructor returns whatever the
\* storage file holds, and so does every later call.
C11_NoExceptionEscapes ==
  /\ pc # "raised"
  /\ ret.val \notin {"ValueError", "AttributeError", "KeyError"}

\* C12: Task.from_dict(task.to_dict()) equals the task in all nine fields,
\* for every task of the manager.
C12_TaskRoundTrip ==
  pc = "ready" =>
    \A i \in 1..Len(tasks) :
      /\ Task_from_dict_error(Task_to_dict(tasks[i])) = "none"
      /\ \A k \in TaskAttrs :
           Task_from_dict(tasks[i].obj, Task_to_dict(tasks[i]))[k] = tasks[i][k]

\* C13: ChangeLog.from_dict(changelog.to_dict()) holds the same entries in
\* the same order, each with the same action, task_data and timestamp.
C13_ChangeLogRoundTrip ==
  pc = "ready" =>
    /\ FirstError(EntryErrors(ChangeLog_to_dict(changelog))) = "none"
    /\ ChangeLog_from_dict(ChangeLog_to_dict(changelog)) = changelog

\* the changelog action of each operation on an existing task
ActionOf ==
  [update_task |-> "UPDATE", delete_task |-> "DELETE",
   complete_task |-> "COMPLETE", archive_task |-> "ARCHIVE"]

\* C16: a successful complete_task leaves the task COMPLETED with a
\* completed_at and not overdue, and a step that keeps the status of such a
\* task keeps its completed_at set and the task not overdue.
C16_CompletedStaysCompleted ==
  [][(pc = "ready" /\ pc' = "ready") =>
       /\ Succeeded("complete_task") =>
            /\ tasks'[ret'.id + 1].status = "COMPLETED"
            /\ tasks'[ret'.id + 1].completed_at # NoneVal
            /\ ~is_overdue(tasks'[ret'.id + 1], now')
       /\ \A i \in 1..Len(tasks) :
            (/\ tasks[i].status = "COMPLETED"
             /\ tasks[i].completed_at # NoneVal
             /\ tasks'[i].status = "COMPLETED") =>
              /\ tasks'[i].completed_at # NoneVal
              /\ ~is_overdue(tasks'[i], now')]_vars

\* C17: a successful update_task, delete_task, complete_task or archive_task
\* appends one changelog entry with the action of the operation; its
\* task_data is the record of the task after the call, and for UPDATE the
\* pair of the records before and after the call.
C17_OneEntryPerMutation ==
  [][\A op \in DOMAIN ActionOf :
       Succeeded(op) =>
         LET before == Task_to_dict(tasks[ret'.id + 1])
             after == Task_to_dict(tasks'[ret'.id + 1])
             entry == changelog'[Len(changelog')]
         IN  /\ Len(changelog') = Len(changelog) + 1
             /\ IsPrefix(changelog, changelog')
             /\ entry.action = ActionOf[op]
             /\ entry.task_data =
                  IF op = "update_task" THEN [old |-> before, new |-> after]
                  ELSE after]_vars

\* an update has changed the title of a task: the entry holds both records
C17_Witness ==
  /\ pc = "ready" /\ ret = Call("update_task", 0, "Task")
  /\ changelog[Len(changelog)].action = "UPDATE"
  /\ changelog[Len(changelog)].task_data.old.title = "a"
  /\ changelog[Len(changelog)].task_data.new.title = "b"
  /\ tasks[1].title = "b"

\* C18: a successful update_task, delete_task, complete_task or archive_task
\* leaves the task's updated_at at a reading of the clock taken during the
\* call.
C18_MutationBumpsUpdatedAt ==
  [][\A op \in DOMAIN ActionOf :
       Succeeded(op) =>
         /\ now <= tasks'[ret'.id + 1].updated_at
         /\ tasks'[ret'.id + 1].updated_at <= now']_vars

\* ------------------------------------------------------------------ C14
\* The conjunction of the predicates that are set in filter f, for task t
\* at time at; due_in_days = N is a due date from now up to, not
\* including, N + 1 whole days ahead.
Satisfies(f, t, at) ==
  /\ f.status # <<>> => t.status = f.status[1]
  /\ f.priority # <<>> => t.priority = f.priority[1]
  /\ f.category # <<>> => t.category = f.category[1]
  /\ f.overdue_only =>
       t.due_date # NoneVal /\ t.due_date < at /\ t.status # "COMPLETED"
  /\ f.due_in_days # <<>> =>
       /\ t.due_date # NoneVal
       /\ at <= t.due_date
       /\ t.due_date - at < (f.due_in_days[1] + 1) * TicksPerDay

\* r holds exactly the tasks of ts whose position is in S, each once and
\* in the order of ts (tasks[i].obj = i in the lists of InitQuery)
ExactlyInOrder(r, ts, S) ==
  /\ \A j \in 1..Len(r) : r[j].obj \in 1..Len(ts) /\ r[j] = ts[r[j].obj]
  /\ \A j \in 1..(Len(r) - 1) : r[j].obj < r[j + 1].obj
  /\ {r[j].obj : j \in 1..Len(r)} = S

\* C14: filter_tasks returns exactly the tasks satisfying every predicate
\* that is set, in their original order and without duplicates; a filter
\* with nothing set returns the whole list, Deleted tasks included.
C14_ApplyIsConjunction ==
  ret.op = "filter_tasks" =>
    /\ ExactlyInOrder(ret.val, tasks,
                      {i \in 1..Len(tasks) : Satisfies(ret.arg, tasks[i], now)})
    /\ ret.arg = TaskFilter(<<>>, <<>>, <<>>, FALSE, <<>>) => ret.val = tasks

\* a filter with due_in_days = 0 and a category keeps the second of two
\* tasks and drops the first
C14_Witness ==
  /\ ret.op = "filter_tasks"
  /\ ret.arg = TaskFilter(<<>>, <<>>, <<"Work">>, FALSE, <<0>>)
  /\ Len(tasks) = 2 /\ tasks[1].status = "DELETED" /\ tasks[1].due_date = TicksPerDay
  /\ ret.val = <<tasks[2]>>

\* ------------------------------------------------------------------ C15
\* C15: is_overdue is true exactly when the due date is set and earlier
\* than now and the status is not Completed, whatever else the status is.
C15_IsOverdue ==
  ret.op = "is_overdue" =>
    LET t == tasks[ret.arg]
    IN  ret.val = TRUE <=>
          (t.due_date # NoneVal /\ t.due_date < now /\ t.status # "COMPLETED")

\* a Deleted task past its due date is reported overdue
C15_Witness ==
  /\ ret.op = "is_overdue"
  /\ tasks[ret.arg].status \in {"DELETED", "ARCHIVED"}
  /\ tasks[ret.arg].due_date < now
  /\ ret.val = TRUE

\* ------------------------------------------------------------------ C20
\* C20: days_until_due is negative exactly when the due date is before
\* now; due_in_days = N selects the tasks with a due date and
\* 0 <= days_until_due <= N, never an overdue one; get_upcoming_tasks
\* returns Pending tasks only and none that get_overdue_tasks returns at
\* the same time.
C20_UpcomingExcludesOverdue ==
  /\ ret.op = "days_until_due" =>
       LET t == tasks[ret.arg]
       IN  /\ ret.val = <<>> <=> t.due_date = NoneVal
           /\ ret.val # <<>> => (ret.val[1] < 0 <=> t.due_date < now)
  /\ ret.op = "filter_tasks" /\ ret.arg.due_in_days # <<>> =>
       /\ \A j \in 1..Len(ret.val) : ~is_overdue(ret.val[j], now)
       /\ \A i \in 1..Len(tasks) :
            (\E j \in 1..Len(ret.val) : ret.val[j].obj = i) <=>
              /\ Satisfies([ret.arg EXCEPT !.due_in_days = <<>>], tasks[i], now)
              /\ days_until_due(tasks[i], now) # <<>>
              /\ 0 <= days_until_due(tasks[i], now)[1]
              /\ days_until_due(tasks[i], now)[1] <= ret.arg.due_in_days[1]
  /\ ret.op = "get_upcoming_tasks" =>
       \A j \in 1..Len(ret.val) :
         /\ ret.val[j].status = "PENDING"
         /\ \A k \in 1..Len(get_overdue_tasks(tasks, now)) :
              get_overdue_tasks(tasks, now)[k].obj # ret.val[j].obj
  /\ ret.op = "get_overdue_tasks" =>
       \A j \in 1..Len(ret.val) : ret.val[j].status = "PENDING"

\* one Pending task is upcoming while another is overdue, less than a day
\* after its due date
C20_Witness ==
  /\ ret.op = "get_upcoming_tasks"
  /\ Len(ret.val) = 1
  /\ Len(get_overdue_tasks(tasks, now)) = 1
  /\ now - get_overdue_tasks(tasks, now)[1].due_date < TicksPerDay

\* ------------------------------------------------------------------ C19
\* the snapshot of the task the call under way changed, as its
\* changelog entry holds it
ChangeOf(call) == IF call.op = "update_task" THEN call.data.new ELSE call.data

\* C19: a mutating operation changes the task list, then appends the
\* changelog entry, then persists, then notifies: a notification is sent
\* only when the storage file equals the serialization of the state in
\* memory with that change in it, and none is sent by an operation whose
\* save_data failed.
C19_PersistBeforeNotify ==
  [][/\ tasks' # tasks => pc = "ready" /\ UNCHANGED <<changelog, file, sent>>
     /\ changelog' # changelog =>
          /\ pc = "mutated"
          /\ Task_to_dict(tasks[ret.id + 1]) = ChangeOf(ret)
          /\ UNCHANGED <<tasks, file, sent>>
     /\ file' # file =>
          /\ pc = "logged"
          /\ changelog[Len(changelog)].task_data = ret.data
          /\ UNCHANGED <<tasks, changelog, sent>>
     /\ sent' # sent =>
          /\ pc = "saved"
          /\ file = save_data(tasks, changelog)
          /\ changelog[Len(changelog)].action = LoggedAs[ret.op]
          /\ changelog[Len(changelog)].task_data = ret.data
          /\ Task_to_dict(tasks[ret.id + 1]) = ChangeOf(ret)
          /\ ret'.val = ReturnOf[ret.op]
          /\ UNCHANGED <<tasks, changelog, file>>
     /\ ret'.val = "OSError" => sent' = sent
     /\ ret'.val \in {"Task", "True"} => file' = save_data(tasks', changelog')
    ]_vars

\* a first operation was persisted and notified; the second failed to
\* persist, so the file lacks its change and nothing more was sent
C19_Witness ==
  /\ pc = "ready"
  /\ ret.val = "OSError"
  /\ Len(changelog) = 2
  /\ Len(sent) = 1
  /\ file # save_data(tasks, changelog)

\* ------------------------------------------------------------------ C21
ReadOnlyOps ==
  {"get_task", "filter_tasks", "get_categories", "get_upcoming_tasks",
   "get_overdue_tasks", "get_changes_since"}

\* r is the entries of changes with timestamp >= since, each once, in
\* the order of changes
EntriesSince(r, changes, since) ==
  LET S == {i \in 1..Len(changes) : changes[i].timestamp >= since}
  IN  /\ Len(r) = Cardinality(S)
      /\ \E f \in [1..Len(r) -> S] :
           /\ \A j \in 1..(Len(r) - 1) : f[j] < f[j + 1]
           /\ \A j \in 1..Len(r) : r[j] = changes[f[j]]

\* C21: the read-only operations leave the task list, every task, the
\* changelog and the storage file as they were and send nothing;
\* get_changes_since returns the entries with timestamp >= its argument
\* in insertion order, and a second call with the same timestamp returns
\* the same entries.
C21_ReadOnlyOpsChangeNothing ==
  [][(pc = "ready" /\ ret'.op \in ReadOnlyOps) =>
       /\ UNCHANGED <<tasks, changelog, file, sent>>
       /\ ret'.op = "get_changes_since" =>
            /\ EntriesSince(ret'.val, changelog, ret'.arg)
            /\ get_changes_since(changelog', ret'.arg) = ret'.val
    ]_vars

\* of two entries, a loaded one and one logged later, the changes since
\* the later time are the second entry only; a notification was sent and
\* the file written before the call
C21_Witness ==
  /\ ret.op = "get_changes_since"
  /\ ret.arg = 1
  /\ Len(changelog) = 2
  /\ ret.val = <<changelog[2]>>
  /\ Len(sent) = 1
  /\ file = save_data(tasks, changelog)

\* ------------------------------------------------------------------ C22
\* C22: Task.update returns without error; it overwrites the supplied
\* attributes among the nine task attributes, ignores every other
\* supplied name, leaves the attributes not supplied as they were and
\* sets updated_at to the time of the call; with unknown names only,
\* nothing but updated_at changes.
C22_UpdateFrame ==
  [][ret'.op = "update" =>
       LET self == ret'.self
           after == tasks'[1]
           kwargs == ret'.arg
       IN  /\ ret'.val = "None"
           /\ DOMAIN after = DOMAIN self
           /\ \A k \in TaskAttrs \ {"updated_at"} :
                after[k] = IF k \in DOMAIN kwargs THEN kwargs[k] ELSE self[k]
           /\ now <= after.updated_at /\ after.updated_at <= now'
           /\ DOMAIN kwargs \cap TaskAttrs = {} =>
                after = [self EXCEPT !.updated_at = after.updated_at]
    ]_vars

====
